---- MODULE Spec2Model ----
(***************************************************************************)
(* The acknowledgment correlator of the Meshtastic console tools and the   *)
(* send-and-wait operation built on it, as they are written in             *)
(*   src/meshtastic_cli_1.0.py  (variant "cli10"),                         *)
(*   src/meshtastic_cli.py      (variant "cli"),                           *)
(*   src/meshtastic_GUI.py      (variant "gui").                           *)
(* The three programs hold the same four shared objects                    *)
(* (ack_received_event, ack_response_status, acks_lock,                    *)
(* waiting_for_ack_from); meshtastic_cli.py adds print_lock.  One feed     *)
(* thread runs the receive callback for one packet at a time; every        *)
(* direct message runs send-and-wait in a thread of its own; the main      *)
(* thread takes the user's commands and ends the program.                  *)
(***************************************************************************)
EXTENDS Integers, FiniteSets, Sequences

\* Number of send-and-wait threads the command loop / Send button spawns.
MaxCalls == 2

Calls == 1..MaxCalls

Variants == {"cli10", "cli", "gui"}

\* Node ids that appear as destination and as packet source.
Nodes == {"!aaaaaaaa", "!bbbbbbbb"}

\* A node id the user can type that is not in the node database.
UnknownId == "!cccccccc"

\* Python's None, as the value of waiting_for_ack_from and of dict.get().
None == "None"

\* A key that the packet dictionary does not hold.
Absent == "absent"

\* Routing error reasons the device library reports (NONE: delivered).
Reasons == {"NONE", "NO_RESPONSE"}

\* The packets the library publishes: a packet may lack 'decoded' (then it
\* has no portnum and no routing payload), 'fromId', 'portnum', or the
\* 'errorReason' of its routing payload.
Packets ==
    [decoded : {FALSE}, fromId : Nodes \cup {Absent},
     portnum : {Absent}, errorReason : {Absent}]
    \cup
    [decoded : {TRUE}, fromId : Nodes \cup {Absent},
     portnum : {"TEXT_MESSAGE_APP", Absent}, errorReason : {Absent}]
    \cup
    [decoded : {TRUE}, fromId : Nodes \cup {Absent},
     portnum : {"ROUTING_APP"}, errorReason : Reasons \cup {Absent}]

NoPacket ==
    [decoded |-> FALSE, fromId |-> Absent, portnum |-> Absent,
     errorReason |-> Absent]

VARIABLES
    variant,               \* which of the three programs runs
    oneAtATime,            \* the user starts a direct message only after the
                           \*   previous one has ended (fixed for a run)
    waiting_for_ack_from,  \* expected source, None when nothing is pending
    ack_response_status,   \* result: "UNKNOWN", or what the last ack carried
    ack_received_event,    \* threading.Event flag
    acks_lock,             \* threading.Lock: TRUE when locked
    print_lock,            \* threading.Lock of meshtastic_cli.py
    pc,                    \* position of each send-and-wait thread
    destination,           \* destination_node_id / destination_id argument
    status,                \* the local 'status' read at disarm
    outcome,               \* which final message the thread printed / logged
    shown,                 \* the reason text inside the 'failed' message
    released,              \* how ack_received_event.wait returned
    pcF,                   \* position of the feed thread in the callback
    packet,                \* the packet the callback is handling / handled
    obsExpected,           \* waiting_for_ack_from as the callback's test read it
    sawMatch,              \* history: a routing packet from the call's
                           \*   destination was tested between its arm and
                           \*   the return of its wait
    anyConsumed,           \* history: a packet was consumed between the
                           \*   call's arm and its disarm
    releaser,              \* history, kept when oneAtATime: the reason
                           \*   carried by the packet whose set() raised the
                           \*   flag from clear
    lastSeen,              \* history, kept when oneAtATime: the reason carried
                           \*   by the last routing packet tested that came
                           \*   from the destination of the call in progress,
                           \*   between its arm and its disarm
    steps,                 \* history: what the thread has completed so far,
                           \*   in order: "arm", a call of sendText ("send"),
                           \*   the return of wait ("wait"), "disarm"
    pcM,                   \* position of the main thread (command loop of the
                           \*   CLIs, Tk event loop of the GUI)
    closed,                \* interface.close() has been called
    bcastLog,              \* the calls of interface.sendText the main thread
                           \*   has made for the command it is handling
    copies,                \* the correlators of the three programs, side by
                           \*   side: one record of the three fields each
    lastOp,                \* the correlator operation applied last to the
                           \*   three (its destination or packet), with what
                           \*   each consumed and returned
    is_connected,          \* GUI: self.is_connected
    interface,             \* GUI: self.interface, None or the SerialInterface
    pcW,                   \* GUI: position of each thread started by
                           \*   toggle_connection (connect or disconnect)
    uiQueue,               \* GUI: the callbacks scheduled with self.after(0, ..)
                           \*   that the Tk loop has not run yet
    connect_button,        \* GUI: the text of the Connect button; it is
                           \*   disabled while it reads "Connecting..."
    send_button,           \* GUI: the Send button is enabled
    sendLog,               \* GUI: how the last click on Send, or the last
                           \*   sendText of a direct message thread, ended
    dmT,                   \* GUI: a direct message thread has been started and
                           \*   has not called sendText yet
    nodes,                 \* CLI: interface.nodes, node id -> the names in
                           \*   its 'user' entry
    dmCmd,                 \* CLI: raw_input_str.split(' ') of the last command
                           \*   the dm branch of the loop was tried on
    dmLog,                 \* CLI: what the loop did with it
    mainAt,                \* meshtastic_cli.py, node printing: where main is
                           \*   (start-up, command table, loop, a nodes command)
    pcU,                   \* ... where periodic_update_thread is
    nodesAt,               \* ... where main and the periodic thread are inside
                           \*   on_nodes_updated / print_online_nodes
    nodesLeft,             \* ... how many nodes the for loop has still to print
    printOwner,            \* ... the thread that holds print_lock, "none"
                           \*   when it is free
    otherAt,               \* ... where the receive callback and a
                           \*   send-and-wait thread are around their prints
    command_queue,         \* ... the lines user_input_thread has put
    raw_input_str          \* ... the line the loop has taken

corr == <<waiting_for_ack_from, ack_response_status, ack_received_event>>

shared == <<waiting_for_ack_from, ack_response_status, ack_received_event,
            acks_lock, print_lock>>

callVars == <<pc, destination, status, outcome, shown, released>>

feedVars == <<pcF, packet, obsExpected>>

mainVars == <<pcM, closed, bcastLog>>

\* The correlators taken by themselves.
corrVars == <<copies, lastOp>>

\* The connection state of the GUI and its buttons.
guiVars == <<is_connected, interface, pcW, uiQueue, connect_button,
             send_button, sendLog, dmT>>

\* The node database and the dm command of the CLIs.
dmVars == <<nodes, dmCmd, dmLog>>

\* The node printers of meshtastic_cli.py and their callers.
inputVars == <<command_queue, raw_input_str>>
printVars == <<mainAt, pcU, nodesAt, nodesLeft, printOwner, otherAt, inputVars>>

\* What the threads of the program leave alone.
auxVars == <<corrVars, guiVars, dmVars, printVars>>

obsHist == <<sawMatch, anyConsumed, releaser, lastSeen>>

histVars == <<sawMatch, anyConsumed, releaser, lastSeen, steps>>

vars == <<variant, oneAtATime, waiting_for_ack_from, ack_response_status,
          ack_received_event, acks_lock, print_lock, pc, destination, status,
          outcome, shown, released, pcF, packet, obsExpected,
          sawMatch, anyConsumed, releaser, lastSeen, steps,
          pcM, closed, bcastLog, copies, lastOp,
          is_connected, interface, pcW, uiQueue, connect_button, send_button,
          sendLog, dmT, nodes, dmCmd, dmLog,
          mainAt, pcU, nodesAt, nodesLeft, printOwner, otherAt,
          command_queue, raw_input_str>>

----------------------------------------------------------------------------
(* Pure parts of the callback and of the final report.                      *)

\* Python truthiness of an expected source ('if waiting_for_ack_from and').
Truthy(x) == x # None /\ x # ""

\* packet.get('fromId', 'N/A') in the CLIs, packet.get('fromId') in the GUI.
FromId(v, p) ==
    IF p.fromId = Absent
    THEN (IF v = "gui" THEN None ELSE "N/A")
    ELSE p.fromId

\* decoded.get('portnum', 'N_A') in the CLIs,
\* packet.get('decoded', {}).get('portnum') in the GUI.
Portnum(v, p) ==
    IF ~p.decoded \/ p.portnum = Absent
    THEN (IF v = "gui" THEN None ELSE "N_A")
    ELSE p.portnum

\* The test that makes a packet the awaited acknowledgment.
IsAckNoTruthTest(v, p, expected) ==
    /\ FromId(v, p) = expected
    /\ Portnum(v, p) = "ROUTING_APP"

IsAckAnyPort(v, p, expected) ==
    /\ Truthy(expected)
    /\ FromId(v, p) = expected

IsAckAnySource(v, p, expected) ==
    /\ Truthy(expected)
    /\ Portnum(v, p) = "ROUTING_APP"

IsAck(v, p, expected) ==
    /\ Truthy(expected)
    /\ FromId(v, p) = expected
    /\ Portnum(v, p) = "ROUTING_APP"

\* routing.get('errorReason', 'UNKNOWN_RESPONSE')
ErrorReason(p) ==
    IF p.errorReason = Absent THEN "UNKNOWN_RESPONSE" ELSE p.errorReason

\* The if / elif / else that picks the final message.
ClassifyNoTimeout(s) ==
    IF s = "NONE" THEN "delivered" ELSE "failed"

Classify(s) ==
    IF s = "NONE" THEN "delivered"
    ELSE IF s = "UNKNOWN" THEN "timeout"
    ELSE "failed"

\* 'if not decoded: return' at the top of the CLI callbacks.
DropsUndecoded(v) == v \in {"cli10", "cli"}

\* Only meshtastic_cli.py prints under print_lock.
UsesPrintLock(v) == v = "cli"

----------------------------------------------------------------------------
(* Observation predicates used by the history variables and the claims:     *)
(* they read the packet's own fields, not the callback's test.              *)

\* p is a routing notification whose source id is x.
RoutingFrom(p, x) ==
    /\ p.decoded
    /\ p.fromId = x
    /\ p.portnum = "ROUTING_APP"

\* The call has armed and has not yet started its disarm.
InWindow(c) ==
    pc[c] \in {"announce", "announce_cs", "send", "wait", "disarm_acquire"}

\* The call is somewhere between the start of its arm and the end of its disarm.
InCycle(c) ==
    pc[c] \in {"arm_clear", "arm_status", "arm_target", "announce",
               "announce_cs", "send", "wait", "disarm_acquire",
               "disarm_read", "disarm_clear"}

Ended(c) == pc[c] \in {"idle", "done"}

\* The call has armed and its wait has not yet returned.
BeforeWake(c) == pc[c] \in {"announce", "announce_cs", "send", "wait"}

----------------------------------------------------------------------------
TypeOK ==
    /\ variant \in Variants
    /\ oneAtATime \in BOOLEAN
    /\ waiting_for_ack_from \in Nodes \cup {None, UnknownId}
    /\ ack_response_status \in Reasons \cup {"UNKNOWN", "UNKNOWN_RESPONSE"}
    /\ ack_received_event \in BOOLEAN
    /\ acks_lock \in BOOLEAN
    /\ print_lock \in BOOLEAN
    /\ destination \in [Calls -> Nodes \cup {None, UnknownId}]
    /\ packet \in Packets
    /\ releaser \in Reasons \cup {Absent, "none"}
    /\ lastSeen \in Reasons \cup {Absent, "none"}
    /\ pcM \in {"idle", "nodes", "bcast", "prompt", "closing", "exited"}
    /\ closed \in BOOLEAN

Start0 ==
    /\ variant \in Variants
    /\ waiting_for_ack_from = None
    /\ ack_response_status = "UNKNOWN"
    /\ ack_received_event = FALSE
    /\ acks_lock = FALSE
    /\ print_lock = FALSE
    /\ pc = [c \in Calls |-> "idle"]
    /\ destination = [c \in Calls |-> None]
    /\ status = [c \in Calls |-> "unset"]
    /\ outcome = [c \in Calls |-> "none"]
    /\ shown = [c \in Calls |-> "none"]
    /\ released = [c \in Calls |-> "none"]
    /\ pcF = "idle"
    /\ packet = NoPacket
    /\ obsExpected = "unread"
    /\ sawMatch = [c \in Calls |-> FALSE]
    /\ anyConsumed = [c \in Calls |-> FALSE]
    /\ releaser = "none"
    /\ lastSeen = "none"
    /\ steps = [c \in Calls |-> <<>>]
    /\ pcM = "idle"
    /\ closed = FALSE
    /\ bcastLog = <<>>

\* The module-level assignments (the attributes set in __init__) of the three
\* programs; no operation applied yet.
Corr0 ==
    /\ copies = [v \in Variants |->
                    [waiting_for_ack_from |-> None,
                     ack_response_status |-> "UNKNOWN",
                     ack_received_event |-> FALSE]]
    /\ lastOp = [op |-> "none", n |-> 0, dest |-> None, pkt |-> NoPacket,
                 consumed |-> [v \in Variants |-> FALSE],
                 result |-> [v \in Variants |-> "none"]]

\* Threads that toggle_connection has started and that have not ended.
MaxWorkers == 2

Workers == 1..MaxWorkers

\* Callbacks scheduled with self.after and not yet run.
MaxPending == 3

\* MeshtasticGUI.__init__: not connected, the buttons as they are created.
Gui0 ==
    /\ is_connected = FALSE
    /\ interface = None
    /\ pcW = [w \in Workers |-> "idle"]
    /\ uiQueue = <<>>
    /\ connect_button = "Connect"
    /\ send_button = TRUE
    /\ sendLog = "none"
    /\ dmT = "idle"

\* The GUI once connect_to_device and set_ui_connected have run: the state
\* in which its direct messages are sent.
GuiConnected ==
    /\ is_connected = TRUE
    /\ interface = "iface"
    /\ pcW = [w \in Workers |-> "idle"]
    /\ uiQueue = <<>>
    /\ connect_button = "Disconnect"
    /\ send_button = TRUE
    /\ sendLog = "none"
    /\ dmT = "idle"

\* The 'user' entry of a node: a name may be missing (a node that has been
\* heard but has not sent its user info has no 'user' entry at all).
UserInfos == [longName : {"Bob", "Al", Absent}, shortName : {"BOB", Absent}]

NodeDbs == [Nodes -> UserInfos]

\* The second word of a dm command: a name, nothing (two spaces after dm),
\* or an id.
Targets == {"", "bob", "al", "!aaaaaaaa", UnknownId}

\* raw_input_str.split(' ') for the commands that start with the letters dm.
DmInputs ==
    {<<"dm">>}
    \cup {<<"dm", t>> : t \in {"", "bob"}}
    \cup {<<w, t, "hi">> : w \in {"dm", "DM"}, t \in Targets}
    \cup {<<"dm", "bob", "hi", "there">>}

\* No dm command handled yet.
Dm0 ==
    /\ dmCmd = <<>>
    /\ dmLog = "none"

\* A node database without names.
NoNames == [n \in Nodes |-> [longName |-> Absent, shortName |-> Absent]]

\* The threads that call on_nodes_updated or print_online_nodes.
NodePrinters == {"main", "periodic"}

\* The other threads that print under print_lock: the receive callback and
\* a send-and-wait thread.
OtherPrinters == {"feed", "sender"}

\* The most nodes a list has.
MaxNodes == 2

\* The lines the user types, and the most lines waiting in command_queue.
InputLines == {"nodes all", "nodes online", "hello"}
MaxQueued == 2

\* Nobody is inside a node printer and print_lock is free.
PrintIdle ==
    /\ pcU = "wait"
    /\ nodesAt = [t \in NodePrinters |-> "out"]
    /\ nodesLeft = 0
    /\ printOwner = "none"
    /\ otherAt = [t \in OtherPrinters |-> "idle"]
    /\ command_queue = <<>>
    /\ raw_input_str = ""

\* main in its command loop, the start-up done.
Print0 == PrintIdle /\ mainAt = "loop"

Aux0 ==
    /\ Corr0
    /\ GuiConnected
    /\ Dm0
    /\ nodes = NoNames
    /\ Print0

\* Direct messages may be started at any time, also while one is waiting.
Init == Start0 /\ oneAtATime = FALSE /\ Aux0

\* Direct messages are started one after the other.
InitSeq == Start0 /\ oneAtATime = TRUE /\ Aux0

----------------------------------------------------------------------------
(* send_direct_message_and_wait / send_direct_message_thread, one thread   *)
(* per direct message.                                                      *)

\* A thread that goes to the send without arming.
StartUnarmed(c, d) ==
    /\ pc[c] = "idle"
    /\ pcM = "idle"
    /\ ~closed
    /\ UsesPrintLock(variant) => ~print_lock
    /\ \A o \in Calls : o < c => pc[o] # "idle"
    /\ oneAtATime => \A o \in Calls : Ended(o)
    /\ pc' = [pc EXCEPT ![c] = "announce"]
    /\ destination' = [destination EXCEPT ![c] = d]
    /\ UNCHANGED <<variant, oneAtATime, auxVars, mainVars, shared, status, outcome, shown, released,
                   feedVars, histVars>>

\* The command loop (or the Send button) starts a thread for destination d;
\* the loop of meshtastic_cli.py handles the command under print_lock.
\* Threads are numbered in the order in which they are started.
Start(c, d) ==
    /\ pc[c] = "idle"
    /\ pcM = "idle"
    /\ ~closed
    /\ UsesPrintLock(variant) => ~print_lock
    /\ \A o \in Calls : o < c => pc[o] # "idle"
    /\ oneAtATime => \A o \in Calls : Ended(o)
    /\ pc' = [pc EXCEPT ![c] = "arm_acquire"]
    /\ destination' = [destination EXCEPT ![c] = d]
    /\ UNCHANGED <<variant, oneAtATime, auxVars, mainVars, shared, status, outcome, shown, released,
                   feedVars, histVars>>

\* An arm that does not wait for acks_lock.
ArmAcquireNoLock(c) ==
    /\ pc[c] = "arm_acquire"
    /\ acks_lock' = TRUE
    /\ pc' = [pc EXCEPT ![c] = "arm_clear"]
    /\ UNCHANGED <<variant, oneAtATime, auxVars, mainVars, corr, print_lock, destination, status,
                   outcome, shown, released, feedVars, histVars>>

\* with acks_lock:            (arm)
ArmAcquire(c) ==
    /\ pc[c] = "arm_acquire"
    /\ ~acks_lock
    /\ acks_lock' = TRUE
    /\ pc' = [pc EXCEPT ![c] = "arm_clear"]
    /\ UNCHANGED <<variant, oneAtATime, auxVars, mainVars, corr, print_lock, destination, status, outcome,
                   shown, released, feedVars, histVars>>

\* An arm that leaves the flag as it finds it.
ArmClearKeepsFlag(c) ==
    /\ pc[c] = "arm_clear"
    /\ pc' = [pc EXCEPT ![c] = "arm_status"]
    /\ releaser' = "none"
    /\ UNCHANGED <<variant, oneAtATime, auxVars, mainVars, shared, destination, status,
                   outcome, shown, released, feedVars, sawMatch, anyConsumed,
                   lastSeen, steps>>

\* ack_received_event.clear()
ArmClear(c) ==
    /\ pc[c] = "arm_clear"
    /\ ack_received_event' = FALSE
    /\ pc' = [pc EXCEPT ![c] = "arm_status"]
    /\ releaser' = "none"
    /\ UNCHANGED <<variant, oneAtATime, auxVars, mainVars, waiting_for_ack_from, ack_response_status,
                   acks_lock, print_lock, destination, status, outcome,
                   shown, released, feedVars, sawMatch, anyConsumed,
                   lastSeen, steps>>

\* An arm that leaves the previous result in place.
ArmStatusNoReset(c) ==
    /\ pc[c] = "arm_status"
    /\ pc' = [pc EXCEPT ![c] = "arm_target"]
    /\ UNCHANGED <<variant, oneAtATime, auxVars, mainVars, shared, destination, status, outcome,
                   shown, released, feedVars, histVars>>

\* ack_response_status = "UNKNOWN"
ArmStatus(c) ==
    /\ pc[c] = "arm_status"
    /\ ack_response_status' = "UNKNOWN"
    /\ pc' = [pc EXCEPT ![c] = "arm_target"]
    /\ UNCHANGED <<variant, oneAtATime, auxVars, mainVars, waiting_for_ack_from, ack_received_event,
                   acks_lock, print_lock, destination, status, outcome,
                   shown, released, feedVars, histVars>>

\* waiting_for_ack_from = destination_node_id, and the lock is released.
ArmTarget(c) ==
    /\ pc[c] = "arm_target"
    /\ waiting_for_ack_from' = destination[c]
    /\ acks_lock' = FALSE
    /\ pc' = [pc EXCEPT ![c] = "announce"]
    /\ lastSeen' = "none"
    /\ steps' = [steps EXCEPT ![c] = Append(@, "arm")]
    /\ UNCHANGED <<variant, oneAtATime, auxVars, mainVars, ack_response_status, ack_received_event,
                   print_lock, destination, status, outcome, shown, released,
                   feedVars, sawMatch, anyConsumed, releaser>>

\* "Sending direct message ...": under print_lock in meshtastic_cli.py, a
\* plain print in 1.0, self.after(...) in the GUI.
Announce(c) ==
    /\ pc[c] = "announce"
    /\ IF UsesPrintLock(variant)
       THEN /\ ~print_lock
            /\ print_lock' = TRUE
            /\ pc' = [pc EXCEPT ![c] = "announce_cs"]
       ELSE /\ print_lock' = print_lock
            /\ pc' = [pc EXCEPT ![c] = "send"]
    /\ UNCHANGED <<variant, oneAtATime, auxVars, mainVars, corr, acks_lock, destination, status, outcome,
                   shown, released, feedVars, histVars>>

AnnounceDone(c) ==
    /\ pc[c] = "announce_cs"
    /\ print_lock' = FALSE
    /\ pc' = [pc EXCEPT ![c] = "send"]
    /\ UNCHANGED <<variant, oneAtATime, auxVars, mainVars, corr, acks_lock, destination, status, outcome,
                   shown, released, feedVars, histVars>>

\* interface.sendText(message, destinationId=..., wantAck=True) returns;
\* on an interface that has been closed it raises.
SendReturns(c) ==
    /\ pc[c] = "send"
    /\ ~closed
    /\ pc' = [pc EXCEPT ![c] = "wait"]
    /\ steps' = [steps EXCEPT ![c] = Append(@, "send")]
    /\ UNCHANGED <<variant, oneAtATime, auxVars, mainVars, shared, destination, status, outcome, shown,
                   released, feedVars, obsHist>>

\* interface.sendText raises: control goes to 'except Exception as e'.
SendRaises(c) ==
    /\ pc[c] = "send"
    /\ pc' = [pc EXCEPT ![c] = "except"]
    /\ steps' = [steps EXCEPT ![c] = Append(@, "send")]
    /\ UNCHANGED <<variant, oneAtATime, auxVars, mainVars, shared, destination, status, outcome, shown,
                   released, feedVars, obsHist>>

\* ack_received_event.wait(timeout=15.0) returns because the flag is set.
WaitSignaled(c) ==
    /\ pc[c] = "wait"
    /\ ack_received_event
    /\ released' = [released EXCEPT ![c] = "signal"]
    /\ pc' = [pc EXCEPT ![c] = "disarm_acquire"]
    /\ steps' = [steps EXCEPT ![c] = Append(@, "wait")]
    /\ UNCHANGED <<variant, oneAtATime, auxVars, mainVars, shared, destination, status, outcome, shown,
                   feedVars, obsHist>>

\* A wait() without timeout: it returns only when the flag is set.
WaitWithoutTimeout(c) ==
    /\ pc[c] = "wait"
    /\ ack_received_event
    /\ released' = [released EXCEPT ![c] = "signal"]
    /\ pc' = [pc EXCEPT ![c] = "disarm_acquire"]
    /\ steps' = [steps EXCEPT ![c] = Append(@, "wait")]
    /\ UNCHANGED <<variant, oneAtATime, auxVars, mainVars, shared, destination, status, outcome, shown,
                   feedVars, obsHist>>

\* A wait that sends the message again when the 15 seconds have passed.
WaitTimeoutResend(c) ==
    /\ pc[c] = "wait"
    /\ ~ack_received_event
    /\ released' = [released EXCEPT ![c] = "timeout"]
    /\ pc' = [pc EXCEPT ![c] = "send"]
    /\ steps' = [steps EXCEPT ![c] = Append(@, "wait")]
    /\ UNCHANGED <<variant, oneAtATime, auxVars, mainVars, shared, destination, status, outcome, shown,
                   feedVars, obsHist>>

\* ... returns because 15 seconds passed with the flag clear.
WaitTimeout(c) ==
    /\ pc[c] = "wait"
    /\ ~ack_received_event
    /\ released' = [released EXCEPT ![c] = "timeout"]
    /\ pc' = [pc EXCEPT ![c] = "disarm_acquire"]
    /\ steps' = [steps EXCEPT ![c] = Append(@, "wait")]
    /\ UNCHANGED <<variant, oneAtATime, auxVars, mainVars, shared, destination, status, outcome, shown,
                   feedVars, obsHist>>

\* with acks_lock:            (disarm)
DisarmAcquire(c) ==
    /\ pc[c] = "disarm_acquire"
    /\ ~acks_lock
    /\ acks_lock' = TRUE
    /\ pc' = [pc EXCEPT ![c] = "disarm_read"]
    /\ UNCHANGED <<variant, oneAtATime, auxVars, mainVars, corr, print_lock, destination, status, outcome,
                   shown, released, feedVars, histVars>>

\* A disarm that lets the way the wait returned decide the result.
DisarmReadByWake(c) ==
    /\ pc[c] = "disarm_read"
    /\ status' = [status EXCEPT ![c] =
                     IF released[c] = "timeout" THEN "UNKNOWN"
                     ELSE ack_response_status]
    /\ pc' = [pc EXCEPT ![c] = "disarm_clear"]
    /\ UNCHANGED <<variant, oneAtATime, auxVars, mainVars, shared, destination, outcome, shown, released,
                   feedVars, histVars>>

\* status = ack_response_status
DisarmRead(c) ==
    /\ pc[c] = "disarm_read"
    /\ status' = [status EXCEPT ![c] = ack_response_status]
    /\ pc' = [pc EXCEPT ![c] = "disarm_clear"]
    /\ UNCHANGED <<variant, oneAtATime, auxVars, mainVars, shared, destination, outcome, shown, released,
                   feedVars, histVars>>

\* A disarm that clears the expected source only when it is the call's own
\* destination.
DisarmClearOwn(c) ==
    /\ pc[c] = "disarm_clear"
    /\ waiting_for_ack_from' = IF waiting_for_ack_from = destination[c]
                               THEN None ELSE waiting_for_ack_from
    /\ acks_lock' = FALSE
    /\ pc' = [pc EXCEPT ![c] = "report"]
    /\ released' = [released EXCEPT ![c] = "none"]
    /\ sawMatch' = [sawMatch EXCEPT ![c] = FALSE]
    /\ anyConsumed' = [anyConsumed EXCEPT ![c] = FALSE]
    /\ lastSeen' = "none"
    /\ steps' = [steps EXCEPT ![c] = Append(@, "disarm")]
    /\ UNCHANGED <<variant, oneAtATime, auxVars, mainVars, ack_response_status, ack_received_event,
                   print_lock, destination, status, outcome, shown, feedVars,
                   releaser>>

\* waiting_for_ack_from = None, and the lock is released.
DisarmClear(c) ==
    /\ pc[c] = "disarm_clear"
    /\ waiting_for_ack_from' = None
    /\ acks_lock' = FALSE
    /\ pc' = [pc EXCEPT ![c] = "report"]
    /\ released' = [released EXCEPT ![c] = "none"]
    /\ sawMatch' = [sawMatch EXCEPT ![c] = FALSE]
    /\ anyConsumed' = [anyConsumed EXCEPT ![c] = FALSE]
    /\ lastSeen' = "none"
    /\ steps' = [steps EXCEPT ![c] = Append(@, "disarm")]
    /\ UNCHANGED <<variant, oneAtATime, auxVars, mainVars, ack_response_status, ack_received_event,
                   print_lock, destination, status, outcome, shown, feedVars,
                   releaser>>

\* The final message of the thread, with the reason inside a 'failed' one.
FinalMessage(c) ==
    /\ outcome' = [outcome EXCEPT ![c] = Classify(status[c])]
    /\ shown' = [shown EXCEPT ![c] =
                   IF Classify(status[c]) = "failed" THEN status[c] ELSE "none"]
    /\ status' = [status EXCEPT ![c] = "unset"]
    /\ destination' = [destination EXCEPT ![c] = None]

\* The final status message: under print_lock in meshtastic_cli.py.
Report(c) ==
    /\ pc[c] = "report"
    /\ IF UsesPrintLock(variant)
       THEN /\ ~print_lock
            /\ print_lock' = TRUE
            /\ pc' = [pc EXCEPT ![c] = "report_cs"]
            /\ UNCHANGED <<destination, status, outcome, shown>>
       ELSE /\ print_lock' = print_lock
            /\ pc' = [pc EXCEPT ![c] = "reported"]
            /\ FinalMessage(c)
    /\ UNCHANGED <<variant, oneAtATime, auxVars, mainVars, corr, acks_lock, released, feedVars, histVars>>

ReportDone(c) ==
    /\ pc[c] = "report_cs"
    /\ FinalMessage(c)
    /\ print_lock' = FALSE
    /\ pc' = [pc EXCEPT ![c] = "reported"]
    /\ UNCHANGED <<variant, oneAtATime, auxVars, mainVars, corr, acks_lock, released, feedVars, histVars>>

\* except Exception as e: "Failed to send message" is all the handler does.
Except(c) ==
    /\ pc[c] = "except"
    /\ IF UsesPrintLock(variant)
       THEN /\ ~print_lock
            /\ print_lock' = TRUE
            /\ pc' = [pc EXCEPT ![c] = "except_cs"]
            /\ UNCHANGED outcome
       ELSE /\ print_lock' = print_lock
            /\ pc' = [pc EXCEPT ![c] = "reported"]
            /\ outcome' = [outcome EXCEPT ![c] = "error"]
    /\ UNCHANGED <<variant, oneAtATime, auxVars, mainVars, corr, acks_lock, destination, status, shown,
                   released, feedVars, histVars>>

ExceptDone(c) ==
    /\ pc[c] = "except_cs"
    /\ outcome' = [outcome EXCEPT ![c] = "error"]
    /\ print_lock' = FALSE
    /\ pc' = [pc EXCEPT ![c] = "reported"]
    /\ UNCHANGED <<variant, oneAtATime, auxVars, mainVars, corr, acks_lock, destination, status, shown,
                   released, feedVars, histVars>>

\* The function returns and the thread ends: its arguments and locals are gone.
Exit(c) ==
    /\ pc[c] = "reported"
    /\ pc' = [pc EXCEPT ![c] = "done"]
    /\ destination' = [destination EXCEPT ![c] = None]
    /\ status' = [status EXCEPT ![c] = "unset"]
    /\ outcome' = [outcome EXCEPT ![c] = "none"]
    /\ shown' = [shown EXCEPT ![c] = "none"]
    /\ released' = [released EXCEPT ![c] = "none"]
    /\ sawMatch' = [sawMatch EXCEPT ![c] = FALSE]
    /\ anyConsumed' = [anyConsumed EXCEPT ![c] = FALSE]
    /\ steps' = [steps EXCEPT ![c] = <<>>]
    /\ UNCHANGED <<variant, oneAtATime, auxVars, mainVars, shared, feedVars, releaser, lastSeen>>

----------------------------------------------------------------------------
(* on_receive / on_packet_received, run by the library's reader thread for  *)
(* one packet at a time.  The callback ends in one of three ways: from      *)
(* "obs_set" (the packet was consumed as the awaited acknowledgment), from  *)
(* "display" / "display_cs" (it was printed or queued), or from "entered"   *)
(* (the CLIs return on a packet without 'decoded').                         *)

\* The callback returns: its locals are gone.
Return ==
    /\ pcF' = "idle"
    /\ packet' = NoPacket
    /\ obsExpected' = "unread"

\* The library's reader, which stops when the interface is closed, calls
\* the callback with packet p.  The CLIs first test
\* 'if not decoded' and go to 'return'; the GUI has no such test.
FeedReceive(p) ==
    /\ pcF = "idle"
    /\ ~closed
    /\ packet' = p
    /\ pcF' = IF DropsUndecoded(variant) /\ ~p.decoded
              THEN "undecoded" ELSE "obs_acquire"
    /\ UNCHANGED <<variant, oneAtATime, auxVars, mainVars, shared, callVars, obsExpected, histVars>>

\* if not decoded: return
ReturnUndecoded ==
    /\ pcF = "undecoded"
    /\ Return
    /\ UNCHANGED <<variant, oneAtATime, auxVars, mainVars, shared, callVars, histVars>>

\* A callback that does not wait for acks_lock.
ObserveAcquireNoLock ==
    /\ pcF = "obs_acquire"
    /\ acks_lock' = TRUE
    /\ pcF' = "obs_check"
    /\ UNCHANGED <<variant, oneAtATime, auxVars, mainVars, corr, print_lock, callVars, packet, obsExpected,
                   histVars>>

\* with acks_lock:            (observe)
ObserveAcquire ==
    /\ pcF = "obs_acquire"
    /\ ~acks_lock
    /\ acks_lock' = TRUE
    /\ pcF' = "obs_check"
    /\ UNCHANGED <<variant, oneAtATime, auxVars, mainVars, corr, print_lock, callVars, packet, obsExpected,
                   histVars>>

\* A callback that goes on to the display path with acks_lock still held.
ObserveCheckKeepsLock ==
    /\ pcF = "obs_check"
    /\ obsExpected' = waiting_for_ack_from
    /\ IF IsAck(variant, packet, waiting_for_ack_from)
       THEN /\ pcF' = "obs_status"
            /\ acks_lock' = acks_lock
            /\ anyConsumed' = [c \in Calls |-> anyConsumed[c] \/ InWindow(c)]
       ELSE /\ pcF' = "display"
            /\ acks_lock' = acks_lock
            /\ UNCHANGED anyConsumed
    /\ sawMatch' = [c \in Calls |->
                      \/ sawMatch[c]
                      \/ BeforeWake(c) /\ RoutingFrom(packet, destination[c])]
    /\ lastSeen' = IF /\ oneAtATime
                      /\ \E c \in Calls :
                            InWindow(c) /\ RoutingFrom(packet, destination[c])
                   THEN packet.errorReason
                   ELSE lastSeen
    /\ UNCHANGED <<variant, oneAtATime, auxVars, mainVars, corr, print_lock, callVars, packet, releaser, steps>>

\* if waiting_for_ack_from and from_node_id == waiting_for_ack_from and
\*    message_type == 'ROUTING_APP':
\* a packet that fails the test leaves the 'with' block and goes on to display.
ObserveCheck ==
    /\ pcF = "obs_check"
    /\ obsExpected' = waiting_for_ack_from
    /\ IF IsAck(variant, packet, waiting_for_ack_from)
       THEN /\ pcF' = "obs_status"
            /\ acks_lock' = acks_lock
            /\ anyConsumed' = [c \in Calls |-> anyConsumed[c] \/ InWindow(c)]
       ELSE /\ pcF' = "display"
            /\ acks_lock' = FALSE
            /\ UNCHANGED anyConsumed
    /\ sawMatch' = [c \in Calls |->
                      \/ sawMatch[c]
                      \/ BeforeWake(c) /\ RoutingFrom(packet, destination[c])]
    /\ lastSeen' = IF /\ oneAtATime
                      /\ \E c \in Calls :
                            InWindow(c) /\ RoutingFrom(packet, destination[c])
                   THEN packet.errorReason
                   ELSE lastSeen
    /\ UNCHANGED <<variant, oneAtATime, auxVars, mainVars, corr, print_lock, callVars, packet, releaser, steps>>

\* error = routing.get('errorReason', 'UNKNOWN_RESPONSE')
\* ack_response_status = error
ObserveStatus ==
    /\ pcF = "obs_status"
    /\ ack_response_status' = ErrorReason(packet)
    /\ pcF' = "obs_set"
    /\ UNCHANGED <<variant, oneAtATime, auxVars, mainVars, waiting_for_ack_from, ack_received_event,
                   acks_lock, print_lock, callVars, packet, obsExpected,
                   histVars>>

\* ack_received_event.set(); return  (the lock is released, nothing is shown)
ObserveSet ==
    /\ pcF = "obs_set"
    /\ ack_received_event' = TRUE
    /\ acks_lock' = FALSE
    /\ releaser' = IF oneAtATime /\ ~ack_received_event
                   THEN packet.errorReason
                   ELSE releaser
    /\ Return
    /\ UNCHANGED <<variant, oneAtATime, auxVars, mainVars, waiting_for_ack_from, ack_response_status,
                   print_lock, callVars, sawMatch, anyConsumed, lastSeen,
                   steps>>

\* The display path: printing under print_lock in meshtastic_cli.py, plain
\* printing in 1.0, self.packet_queue.put(packet) in the GUI.
Display ==
    /\ pcF = "display"
    /\ IF UsesPrintLock(variant)
       THEN /\ ~print_lock
            /\ print_lock' = TRUE
            /\ pcF' = "display_cs"
            /\ UNCHANGED <<packet, obsExpected>>
       ELSE /\ print_lock' = print_lock
            /\ Return
    /\ UNCHANGED <<variant, oneAtATime, auxVars, mainVars, corr, acks_lock, callVars, histVars>>

DisplayDone ==
    /\ pcF = "display_cs"
    /\ print_lock' = FALSE
    /\ Return
    /\ UNCHANGED <<variant, oneAtATime, auxVars, mainVars, corr, acks_lock, callVars, histVars>>

----------------------------------------------------------------------------
(* The main thread: the command loop of the two CLI programs, the Tk event  *)
(* loop of the GUI.  meshtastic_cli.py handles every command inside         *)
(* 'with print_lock'.                                                       *)

\* What the user can ask for besides a direct message.
Commands(v) ==
    IF v = "gui" THEN {"bcast", "disconnect", "exit"}
    ELSE {"nodes", "bcast", "exit"}

\* interface.sendText(raw_input_str) / sendText(message, channelIndex=...):
\* no destinationId and no wantAck, so the library's defaults apply.
BroadcastCall == [destinationId |-> "^all", wantAck |-> FALSE]

\* The process ends: the sender threads and the library's reader thread are
\* daemon threads and stop wherever they are.
ProcessEnds ==
    /\ pc' = [c \in Calls |-> "killed"]
    /\ pcF' = "killed"

\* The loop takes a command.  'exit' breaks out of the loop (and of the
\* 'with' block) and goes to the finally clause; closing the GUI window
\* starts the disconnect thread and destroys the window, which ends the
\* process whether or not that thread has got to interface.close().
MainTake(k) ==
    /\ pcM = "idle"
    /\ k \in Commands(variant)
    /\ closed => k = "exit"
    /\ UsesPrintLock(variant) => ~print_lock
    /\ IF k = "exit" /\ variant = "gui"
       THEN /\ pcM' = "exited"
            /\ closed' \in BOOLEAN
            /\ ProcessEnds
            /\ UNCHANGED print_lock
       ELSE IF k \in {"exit", "disconnect"}
       THEN /\ pcM' = "closing"
            /\ UNCHANGED <<closed, print_lock, pc, pcF>>
       ELSE /\ pcM' = k
            /\ print_lock' = (UsesPrintLock(variant) \/ print_lock)
            /\ UNCHANGED <<closed, pc, pcF>>
    /\ bcastLog' = <<>>
    /\ UNCHANGED <<variant, oneAtATime, auxVars, corr, acks_lock, destination, status,
                   outcome, shown, released, packet, obsExpected, histVars>>

\* Ctrl+C: KeyboardInterrupt in the main thread of a CLI, whatever it is
\* doing; the 'with' block it is in releases print_lock.
Interrupt ==
    /\ variant # "gui"
    /\ pcM \in {"idle", "nodes", "bcast", "prompt"}
    /\ pcM' = "closing"
    /\ print_lock' = IF UsesPrintLock(variant) /\ pcM # "idle"
                     THEN FALSE ELSE print_lock
    /\ bcastLog' = <<>>
    /\ UNCHANGED <<variant, oneAtATime, auxVars, closed, corr, acks_lock, callVars,
                   feedVars, histVars>>

\* 'nodes all' / 'nodes online': on_nodes_updated and print_online_nodes of
\* meshtastic_cli.py print inside their own 'with print_lock'.
PrintNodes ==
    /\ pcM = "nodes"
    /\ UsesPrintLock(variant) => ~print_lock
    /\ pcM' = "prompt"
    /\ UNCHANGED <<variant, oneAtATime, auxVars, closed, bcastLog, shared, callVars,
                   feedVars, histVars>>

\* A broadcast that asks for an acknowledgment.
BroadcastWantAck ==
    /\ pcM = "bcast"
    /\ bcastLog' = Append(bcastLog, [destinationId |-> "^all", wantAck |-> TRUE])
    /\ pcM' = "prompt"
    /\ UNCHANGED <<variant, oneAtATime, auxVars, closed, shared, callVars, feedVars,
                   histVars>>

\* Bare text (no node selected in the GUI): interface.sendText returns.
Broadcast ==
    /\ pcM = "bcast"
    /\ bcastLog' = Append(bcastLog, BroadcastCall)
    /\ pcM' = "prompt"
    /\ UNCHANGED <<variant, oneAtATime, auxVars, closed, shared, callVars, feedVars,
                   histVars>>

\* ... raises: the CLIs leave the loop through 'except Exception' to the
\* finally clause; Tk reports the error and the GUI goes on.
BroadcastRaises ==
    /\ pcM = "bcast"
    /\ bcastLog' = Append(bcastLog, BroadcastCall)
    /\ pcM' = IF variant = "gui" THEN "prompt" ELSE "closing"
    /\ print_lock' = IF UsesPrintLock(variant) THEN FALSE ELSE print_lock
    /\ UNCHANGED <<variant, oneAtATime, auxVars, closed, corr, acks_lock, callVars,
                   feedVars, histVars>>

\* The command is handled: the prompt is printed again and the 'with
\* print_lock' block of meshtastic_cli.py ends.
MainDone ==
    /\ pcM = "prompt"
    /\ print_lock' = IF UsesPrintLock(variant) THEN FALSE ELSE print_lock
    /\ bcastLog' = <<>>
    /\ pcM' = "idle"
    /\ UNCHANGED <<variant, oneAtATime, auxVars, closed, corr, acks_lock, callVars,
                   feedVars, histVars>>

\* finally: exit_event.set(); interface.close(); sys.exit(0), which ends the
\* process and its daemon threads.  disconnect_from_device of the GUI closes
\* the interface and the program goes on.
CloseInterface ==
    /\ pcM = "closing"
    /\ closed' = TRUE
    /\ IF variant = "gui"
       THEN pcM' = "idle" /\ UNCHANGED <<pc, pcF>>
       ELSE pcM' = "exited" /\ ProcessEnds
    /\ UNCHANGED <<variant, oneAtATime, auxVars, bcastLog, shared, destination, status,
                   outcome, shown, released, packet, obsExpected, histVars>>

MainStep ==
    \/ \E k \in {"nodes", "bcast", "disconnect", "exit"} : MainTake(k)
    \/ Interrupt
    \/ PrintNodes
    \/ Broadcast \/ BroadcastRaises
    \/ MainDone
    \/ CloseInterface

----------------------------------------------------------------------------
SenderStep(c) ==
    \/ ArmAcquire(c) \/ ArmClear(c) \/ ArmStatus(c) \/ ArmTarget(c)
    \/ Announce(c) \/ AnnounceDone(c)
    \/ SendReturns(c) \/ SendRaises(c)
    \/ WaitSignaled(c) \/ WaitTimeout(c)
    \/ DisarmAcquire(c) \/ DisarmRead(c) \/ DisarmClear(c)
    \/ Report(c) \/ ReportDone(c)
    \/ Except(c) \/ ExceptDone(c)
    \/ Exit(c)

FeedStep ==
    \/ \E p \in Packets : FeedReceive(p)
    \/ ReturnUndecoded
    \/ ObserveAcquire \/ ObserveCheck \/ ObserveStatus \/ ObserveSet
    \/ Display \/ DisplayDone

Next ==
    \/ \E c \in Calls, d \in Nodes : Start(c, d)
    \/ \E c \in Calls : SenderStep(c)
    \/ FeedStep

Spec == Init /\ [][Next]_vars

SpecSeq == InitSeq /\ [][Next]_vars

\* The whole program: the threads above and the main thread.
NextApp == Next \/ MainStep

SpecApp == InitSeq /\ [][NextApp]_vars

\* What the threads can count on.  wait(timeout=15.0) returns, by the flag or
\* by the timer; a thread inside 'with acks_lock' runs on to the end of the
\* block, the feed thread too; a thread that asks for acks_lock gets it,
\* the lock being free again and again.  Nothing is asked of the packets
\* that arrive, of sendText, or of the threads that print.
Fairness ==
    /\ \A c \in Calls :
          /\ WF_vars(WaitSignaled(c) \/ WaitTimeout(c))
          /\ SF_vars(DisarmAcquire(c))
          /\ WF_vars(ArmClear(c) \/ ArmStatus(c) \/ ArmTarget(c))
          /\ WF_vars(DisarmRead(c) \/ DisarmClear(c))
    /\ WF_vars(ObserveCheck \/ ObserveStatus \/ ObserveSet)

SpecLive == InitSeq /\ [][Next]_vars /\ Fairness

\* For the whole program, in addition: the callback runs on whenever it can
\* and gets the locks it asks for if they are free again and again; a thread
\* that prints under print_lock finishes printing; the main thread goes on
\* with the command it has taken.  Nothing is asked of the user.
FairnessApp ==
    /\ Fairness
    /\ WF_vars(ReturnUndecoded \/ DisplayDone)
    /\ SF_vars(ObserveAcquire)
    /\ SF_vars(Display)
    /\ \A c \in Calls : WF_vars(AnnounceDone(c) \/ ReportDone(c) \/ ExceptDone(c))
    /\ SF_vars(PrintNodes)
    /\ WF_vars(Broadcast \/ BroadcastRaises)
    /\ WF_vars(MainDone)
    /\ WF_vars(CloseInterface)

SpecAppLive == InitSeq /\ [][NextApp]_vars /\ FairnessApp

----------------------------------------------------------------------------
(* The correlator by itself: the three blocks 'with acks_lock' as            *)
(* operations on the record of the three fields, applied to the correlators *)
(* of the three programs side by side.                                      *)

\* How many times in a row the same disarm is counted.
MaxRepeat == 2

\* with acks_lock: ack_received_event.clear(); ack_response_status =
\* "UNKNOWN"; waiting_for_ack_from = destination
ArmOp(s, d) ==
    [waiting_for_ack_from |-> d,
     ack_response_status |-> "UNKNOWN",
     ack_received_event |-> FALSE]

\* The callback of program v treats p as the awaited acknowledgment: the two
\* CLIs return before the test on a packet without 'decoded'.
Consumes(v, s, p) ==
    /\ ~(DropsUndecoded(v) /\ ~p.decoded)
    /\ IsAck(v, p, s.waiting_for_ack_from)

\* with acks_lock: if ...: ack_response_status = error;
\* ack_received_event.set()
ObserveOp(v, s, p) ==
    IF Consumes(v, s, p)
    THEN [s EXCEPT !.ack_response_status = ErrorReason(p),
                   !.ack_received_event = TRUE]
    ELSE s

\* A disarm that resets the result after reading it.
DisarmOpResets(s) ==
    [s EXCEPT !.waiting_for_ack_from = None, !.ack_response_status = "UNKNOWN"]

\* with acks_lock: status = ack_response_status; waiting_for_ack_from = None
DisarmOp(s) ==
    [s EXCEPT !.waiting_for_ack_from = None]

\* ... and the value it reads.
DisarmResult(s) == s.ack_response_status

ArmAll(d) ==
    /\ copies' = [v \in Variants |-> ArmOp(copies[v], d)]
    /\ lastOp' = [op |-> "arm", n |-> 1, dest |-> d, pkt |-> NoPacket,
                  consumed |-> [v \in Variants |-> FALSE],
                  result |-> [v \in Variants |-> "none"]]
    /\ UNCHANGED <<variant, oneAtATime, shared, callVars, feedVars, histVars,
                   mainVars, guiVars, dmVars, printVars>>

ObserveAll(p) ==
    /\ copies' = [v \in Variants |-> ObserveOp(v, copies[v], p)]
    /\ lastOp' = [op |-> "observe", n |-> 1, dest |-> None, pkt |-> p,
                  consumed |-> [v \in Variants |-> Consumes(v, copies[v], p)],
                  result |-> [v \in Variants |-> "none"]]
    /\ UNCHANGED <<variant, oneAtATime, shared, callVars, feedVars, histVars,
                   mainVars, guiVars, dmVars, printVars>>

DisarmAll ==
    /\ lastOp.op = "disarm" => lastOp.n < MaxRepeat
    /\ copies' = [v \in Variants |-> DisarmOp(copies[v])]
    /\ lastOp' = [op |-> "disarm",
                  n |-> IF lastOp.op = "disarm" THEN lastOp.n + 1 ELSE 1,
                  dest |-> None, pkt |-> NoPacket,
                  consumed |-> [v \in Variants |-> FALSE],
                  result |-> [v \in Variants |-> DisarmResult(copies[v])]]
    /\ UNCHANGED <<variant, oneAtATime, shared, callVars, feedVars, histVars,
                   mainVars, guiVars, dmVars, printVars>>

NextCorr ==
    \/ \E d \in Nodes : ArmAll(d)
    \/ \E p \in Packets : ObserveAll(p)
    \/ DisarmAll

InitCorr == Start0 /\ variant = "cli" /\ oneAtATime = TRUE /\ Aux0

SpecCorr == InitCorr /\ [][NextCorr]_vars

----------------------------------------------------------------------------
(* The connection of the GUI: toggle_connection starts connect_to_device or *)
(* disconnect_from_device in a thread of its own; the Tk loop runs the      *)
(* button callbacks and the callbacks scheduled with self.after.            *)

\* What the connection threads and the buttons leave alone.
progVars == <<variant, oneAtATime, shared, callVars, feedVars, histVars,
              pcM, bcastLog, corrVars, dmVars, printVars>>

\* self.after(0, f): f is run later by the Tk loop.
After(f) == uiQueue' = Append(uiQueue, f)

\* toggle_connection, the command of the Connect / Disconnect button.
ToggleConnection(w) ==
    /\ connect_button # "Connecting..."
    /\ pcW[w] = "idle"
    /\ \A o \in Workers : o < w => pcW[o] # "idle"
    /\ pcW' = [pcW EXCEPT ![w] = IF is_connected THEN "d_check" ELSE "c_start"]
    /\ UNCHANGED <<progVars, closed, is_connected, interface, uiQueue,
                   connect_button, send_button, sendLog, dmT>>

\* connect_to_device: without a port selected it shows an error and returns.
ConnectStart(w, portSelected) ==
    /\ pcW[w] = "c_start"
    /\ IF portSelected
       THEN /\ Len(uiQueue) < MaxPending
            /\ After("set_ui_connecting")
            /\ pcW' = [pcW EXCEPT ![w] = "c_open"]
       ELSE /\ pcW' = [pcW EXCEPT ![w] = "idle"]
            /\ UNCHANGED uiQueue
    /\ UNCHANGED <<progVars, closed, is_connected, interface, connect_button,
                   send_button, sendLog, dmT>>

\* self.interface = meshtastic.serial_interface.SerialInterface(...)
ConnectOpens(w) ==
    /\ pcW[w] = "c_open"
    /\ interface' = "iface"
    /\ closed' = FALSE
    /\ pcW' = [pcW EXCEPT ![w] = "c_flag"]
    /\ UNCHANGED <<progVars, is_connected, uiQueue, connect_button,
                   send_button, sendLog, dmT>>

\* ... raises.
ConnectRaises(w) ==
    /\ pcW[w] = "c_open"
    /\ pcW' = [pcW EXCEPT ![w] = "c_except"]
    /\ UNCHANGED <<progVars, closed, is_connected, interface, uiQueue,
                   connect_button, send_button, sendLog, dmT>>

\* pub.subscribe(...); time.sleep(2); self.is_connected = True
ConnectSetFlag(w) ==
    /\ pcW[w] = "c_flag"
    /\ Len(uiQueue) < MaxPending
    /\ is_connected' = TRUE
    /\ After("set_ui_connected")
    /\ pcW' = [pcW EXCEPT ![w] = "idle"]
    /\ UNCHANGED <<progVars, closed, interface, connect_button, send_button,
                   sendLog, dmT>>

\* except Exception: self.is_connected = False
ConnectExceptFlag(w) ==
    /\ pcW[w] = "c_except"
    /\ is_connected' = FALSE
    /\ pcW' = [pcW EXCEPT ![w] = "c_except2"]
    /\ UNCHANGED <<progVars, closed, interface, uiQueue, connect_button,
                   send_button, sendLog, dmT>>

\* self.interface = None
ConnectExceptInterface(w) ==
    /\ pcW[w] = "c_except2"
    /\ Len(uiQueue) < MaxPending
    /\ interface' = None
    /\ After("set_ui_disconnected")
    /\ pcW' = [pcW EXCEPT ![w] = "idle"]
    /\ UNCHANGED <<progVars, closed, is_connected, connect_button,
                   send_button, sendLog, dmT>>

\* disconnect_from_device: if self.interface:
DisconnectCheck(w) ==
    /\ pcW[w] = "d_check"
    /\ pcW' = [pcW EXCEPT ![w] = IF interface # None THEN "d_close"
                                 ELSE "d_clear"]
    /\ UNCHANGED <<progVars, closed, is_connected, interface, uiQueue,
                   connect_button, send_button, sendLog, dmT>>

\* self.interface.close(): the attribute is read again; on None the thread
\* ends with an AttributeError.
DisconnectClose(w) ==
    /\ pcW[w] = "d_close"
    /\ IF interface = None
       THEN /\ pcW' = [pcW EXCEPT ![w] = "idle"]
            /\ UNCHANGED closed
       ELSE /\ pcW' = [pcW EXCEPT ![w] = "d_clear"]
            /\ closed' = TRUE
    /\ UNCHANGED <<progVars, is_connected, interface, uiQueue,
                   connect_button, send_button, sendLog, dmT>>

\* self.interface = None
DisconnectClearInterface(w) ==
    /\ pcW[w] = "d_clear"
    /\ interface' = None
    /\ pcW' = [pcW EXCEPT ![w] = "d_flag"]
    /\ UNCHANGED <<progVars, closed, is_connected, uiQueue, connect_button,
                   send_button, sendLog, dmT>>

\* self.is_connected = False; self.after(0, self.set_ui_disconnected)
DisconnectClearFlag(w) ==
    /\ pcW[w] = "d_flag"
    /\ Len(uiQueue) < MaxPending
    /\ is_connected' = FALSE
    /\ After("set_ui_disconnected")
    /\ pcW' = [pcW EXCEPT ![w] = "idle"]
    /\ UNCHANGED <<progVars, closed, interface, connect_button, send_button,
                   sendLog, dmT>>

\* The Tk loop runs the oldest scheduled callback: set_ui_connecting,
\* set_ui_connected or set_ui_disconnected.
UiCallback ==
    /\ uiQueue # <<>>
    /\ uiQueue' = Tail(uiQueue)
    /\ connect_button' =
          CASE Head(uiQueue) = "set_ui_connecting" -> "Connecting..."
            [] Head(uiQueue) = "set_ui_connected" -> "Disconnect"
            [] OTHER -> "Connect"
    /\ send_button' = (Head(uiQueue) = "set_ui_connected")
    /\ UNCHANGED <<progVars, closed, is_connected, interface, pcW, sendLog,
                   dmT>>

\* What a call of self.interface.sendText does.
SendTextOn(i) ==
    IF i = None THEN "AttributeError"
    ELSE IF closed THEN "raised"
    ELSE "sent"

\* send_message, the command of the Send button; selected: a node is
\* selected in the node list.
SendMessage(selected) ==
    /\ send_button
    /\ IF ~is_connected
       THEN sendLog' = "not connected" /\ UNCHANGED dmT
       ELSE IF selected
       THEN dmT = "idle" /\ dmT' = "send" /\ UNCHANGED sendLog
       ELSE sendLog' = SendTextOn(interface) /\ UNCHANGED dmT
    /\ UNCHANGED <<progVars, closed, is_connected, interface, pcW, uiQueue,
                   connect_button, send_button>>

\* send_direct_message_thread gets to self.interface.sendText(...).
DmThreadSend ==
    /\ dmT = "send"
    /\ sendLog' = SendTextOn(interface)
    /\ dmT' = "idle"
    /\ UNCHANGED <<progVars, closed, is_connected, interface, pcW, uiQueue,
                   connect_button, send_button>>

NextGui ==
    \/ \E w \in Workers : ToggleConnection(w)
    \/ \E w \in Workers, portSelected \in BOOLEAN : ConnectStart(w, portSelected)
    \/ \E w \in Workers : ConnectOpens(w) \/ ConnectRaises(w)
    \/ \E w \in Workers : ConnectSetFlag(w)
    \/ \E w \in Workers : ConnectExceptFlag(w) \/ ConnectExceptInterface(w)
    \/ \E w \in Workers : DisconnectCheck(w) \/ DisconnectClose(w)
    \/ \E w \in Workers : DisconnectClearInterface(w) \/ DisconnectClearFlag(w)
    \/ UiCallback
    \/ \E selected \in BOOLEAN : SendMessage(selected)
    \/ DmThreadSend

InitGui ==
    /\ Start0 /\ variant = "gui" /\ oneAtATime = TRUE
    /\ Corr0 /\ Gui0 /\ Dm0 /\ Print0
    /\ nodes = NoNames

SpecGui == InitGui /\ [][NextGui]_vars

----------------------------------------------------------------------------
(* The dm command of the two CLI programs: the branch                       *)
(* 'elif cmd.startswith('dm '):' of the command loop, with the arm of the   *)
(* thread it starts.                                                        *)

\* str.lower() on the words used here.
Lower(x) ==
    CASE x \in {"Bob", "BOB", "bob"} -> "bob"
      [] x \in {"Al", "AL", "al"} -> "al"
      [] x \in {"DM", "Dm", "dm"} -> "dm"
      [] OTHER -> x

\* target_identifier.startswith('!')
StartsWithBang(x) == x \in Nodes \cup {UnknownId}

\* cmd.startswith('dm '), cmd being raw_input_str.lower(): the first word is
\* dm and a space follows it.
IsDmCommand(parts) == Len(parts) >= 2 /\ Lower(parts[1]) = "dm"

\* user.get('longName', '') / user.get('shortName', ''), user being
\* node_info.get('user', {}).
NameOf(info, key) == IF info[key] = Absent THEN "" ELSE info[key]

\* target_identifier.lower() in [longName.lower(), shortName.lower()]
Matches(t, info) ==
    Lower(t) \in {Lower(NameOf(info, "longName")),
                  Lower(NameOf(info, "shortName"))}

\* found_nodes
FoundNodes(t, db) == {n \in DOMAIN db : Matches(t, db[n])}

\* destination_node_id as the branch computes it; None when the command has
\* fewer than three parts or the name is not found or found more than once.
ResolveDm(parts, db) ==
    IF Len(parts) < 3 THEN None
    ELSE IF StartsWithBang(parts[2]) THEN parts[2]
    ELSE IF Cardinality(FoundNodes(parts[2], db)) = 1
    THEN CHOOSE n \in FoundNodes(parts[2], db) : TRUE
    ELSE None

\* The loop handles a command that starts with the letters dm: a thread is
\* started when destination_node_id is set; a format or lookup error is
\* printed otherwise; a lone 'dm' is not a dm command and goes to the last
\* branch, the broadcast.
DmCommand(c, parts) ==
    /\ pcM = "idle"
    /\ ~closed
    /\ UsesPrintLock(variant) => ~print_lock
    /\ dmCmd' = parts
    /\ IF ~IsDmCommand(parts)
       THEN /\ dmLog' = "broadcast"
            /\ UNCHANGED <<pc, destination>>
       ELSE IF Truthy(ResolveDm(parts, nodes))
       THEN /\ pc[c] = "idle"
            /\ \A o \in Calls : o < c => pc[o] # "idle"
            /\ pc' = [pc EXCEPT ![c] = "arm_acquire"]
            /\ destination' = [destination EXCEPT ![c] = ResolveDm(parts, nodes)]
            /\ dmLog' = "started"
       ELSE /\ dmLog' = "refused"
            /\ UNCHANGED <<pc, destination>>
    /\ UNCHANGED <<variant, oneAtATime, shared, status, outcome, shown,
                   released, feedVars, histVars, mainVars, corrVars, guiVars,
                   nodes, printVars>>

NextDm ==
    \/ \E c \in Calls, parts \in DmInputs : DmCommand(c, parts)
    \/ \E c \in Calls : ArmAcquire(c) \/ ArmClear(c) \/ ArmStatus(c) \/ ArmTarget(c)

InitDm ==
    /\ Start0 /\ variant \in {"cli10", "cli"} /\ oneAtATime = FALSE
    /\ Corr0 /\ GuiConnected /\ Dm0 /\ Print0
    /\ nodes \in NodeDbs

SpecDm == InitDm /\ [][NextDm]_vars

----------------------------------------------------------------------------
(* The node lists of meshtastic_cli.py: on_nodes_updated and                *)
(* print_online_nodes, which print under print_lock and call                *)
(* print_single_node for every node, and their callers: main at start-up,   *)
(* the 'nodes all' and 'nodes online' commands of the loop, the periodic    *)
(* update thread.  print_lock is a threading.Lock: a thread that holds it   *)
(* and asks for it again waits like any other thread.                       *)

\* What the node printers and their callers leave alone.
otherVars == <<variant, oneAtATime, waiting_for_ack_from, ack_response_status,
               ack_received_event, acks_lock, callVars, feedVars, histVars,
               mainVars, corrVars, guiVars, dmVars>>

\* main, before the loop: print_online_nodes(interface=interface), called
\* with no lock held.
StartupCall ==
    /\ mainAt = "startup"
    /\ nodesAt["main"] = "out"
    /\ nodesAt' = [nodesAt EXCEPT !["main"] = "acquire"]
    /\ mainAt' = "startup_nodes"
    /\ UNCHANGED <<otherVars, inputVars, print_lock, pcU, nodesLeft,
                   printOwner, otherAt>>

\* with print_lock: the table of commands and the first prompt.
CommandTable ==
    /\ mainAt = "table"
    /\ ~print_lock
    /\ print_lock' = TRUE
    /\ printOwner' = "main"
    /\ mainAt' = "table_cs"
    /\ UNCHANGED <<otherVars, inputVars, pcU, nodesAt, nodesLeft, otherAt>>

CommandTableDone ==
    /\ mainAt = "table_cs"
    /\ print_lock' = FALSE
    /\ printOwner' = "none"
    /\ mainAt' = "loop"
    /\ UNCHANGED <<otherVars, inputVars, pcU, nodesAt, nodesLeft, otherAt>>

\* user_input_thread: command_queue.put(input(...)).
UserInput(line) ==
    /\ Len(command_queue) < MaxQueued
    /\ command_queue' = Append(command_queue, line)
    /\ UNCHANGED <<otherVars, print_lock, mainAt, pcU, nodesAt, nodesLeft,
                   printOwner, otherAt, raw_input_str>>

\* The loop: raw_input_str = command_queue.get(timeout=0.1)
LoopGet ==
    /\ mainAt = "loop"
    /\ command_queue # <<>>
    /\ raw_input_str' = Head(command_queue)
    /\ command_queue' = Tail(command_queue)
    /\ mainAt' = "got"
    /\ UNCHANGED <<otherVars, print_lock, pcU, nodesAt, nodesLeft, printOwner,
                   otherAt>>

\* with print_lock (line 499):
LoopTake ==
    /\ mainAt = "got"
    /\ ~print_lock
    /\ print_lock' = TRUE
    /\ printOwner' = "main"
    /\ mainAt' = "command"
    /\ UNCHANGED <<otherVars, inputVars, pcU, nodesAt, nodesLeft, otherAt>>

\* The command is 'nodes all' (on_nodes_updated) or 'nodes online'
\* (print_online_nodes): the call of the node printer, inside the block.
LoopNodes ==
    /\ mainAt = "command"
    /\ raw_input_str \in {"nodes all", "nodes online"}
    /\ mainAt' = "nodes"
    /\ nodesAt' = [nodesAt EXCEPT !["main"] = "acquire"]
    /\ UNCHANGED <<otherVars, inputVars, print_lock, pcU, nodesLeft,
                   printOwner, otherAt>>

\* Another line: the loop prints and leaves the block.
LoopOther ==
    /\ mainAt = "command"
    /\ raw_input_str \notin {"nodes all", "nodes online"}
    /\ print_lock' = FALSE
    /\ printOwner' = "none"
    /\ mainAt' = "loop"
    /\ UNCHANGED <<otherVars, inputVars, pcU, nodesAt, nodesLeft, otherAt>>

\* periodic_update_thread: exit_event.wait(timeout=...) times out.
PeriodicWake ==
    /\ pcU = "wait"
    /\ pcU' = "want"
    /\ UNCHANGED <<otherVars, inputVars, print_lock, mainAt, nodesAt,
                   nodesLeft,
                   printOwner, otherAt>>

\* ... with print_lock, then the call of print_online_nodes.
PeriodicFire ==
    /\ pcU = "want"
    /\ ~print_lock
    /\ print_lock' = TRUE
    /\ printOwner' = "periodic"
    /\ pcU' = "printing"
    /\ nodesAt' = [nodesAt EXCEPT !["periodic"] = "acquire"]
    /\ UNCHANGED <<otherVars, inputVars, mainAt, nodesLeft, otherAt>>

\* A node printer that prints without taking print_lock.
NodesAcquireNoLock(t) ==
    /\ nodesAt[t] = "acquire"
    /\ nodesAt' = [nodesAt EXCEPT ![t] = "header"]
    /\ UNCHANGED <<otherVars, inputVars, print_lock, mainAt, pcU, nodesLeft,
                   printOwner,
                   otherAt>>

\* on_nodes_updated / print_online_nodes: with print_lock:
NodesAcquire(t) ==
    /\ nodesAt[t] = "acquire"
    /\ ~print_lock
    /\ print_lock' = TRUE
    /\ printOwner' = t
    /\ nodesAt' = [nodesAt EXCEPT ![t] = "header"]
    /\ UNCHANGED <<otherVars, inputVars, mainAt, pcU, nodesLeft, otherAt>>

\* The header; with no nodes to list the function returns from inside the
\* block, with n nodes it goes into the for loop.
NodesHeader(t, n) ==
    /\ nodesAt[t] = "header"
    /\ nodesLeft' = n
    /\ nodesAt' = [nodesAt EXCEPT ![t] = IF n = 0 THEN "return" ELSE "single"]
    /\ UNCHANGED <<otherVars, inputVars, print_lock, mainAt, pcU, printOwner,
                   otherAt>>

\* for node_id, node_info in sorted_nodes: print_single_node(...)
PrintSingleNode(t) ==
    /\ nodesAt[t] = "single"
    /\ nodesLeft' = nodesLeft - 1
    /\ nodesAt' = [nodesAt EXCEPT ![t] = IF nodesLeft = 1 THEN "return"
                                        ELSE "single"]
    /\ UNCHANGED <<otherVars, inputVars, print_lock, mainAt, pcU, printOwner,
                   otherAt>>

\* The 'with' block of the node printer ends and the function returns to
\* its caller.
NodesReturn(t) ==
    /\ nodesAt[t] = "return"
    /\ print_lock' = FALSE
    /\ printOwner' = "none"
    /\ nodesAt' = [nodesAt EXCEPT ![t] = "out"]
    /\ mainAt' = IF t = "main" /\ mainAt = "startup_nodes" THEN "table"
                 ELSE mainAt
    /\ UNCHANGED <<otherVars, inputVars, pcU, nodesLeft, otherAt>>

\* on_receive (line 53) or a send-and-wait thread (397, 412, 426) comes to
\* a print; the loop starts send-and-wait threads, so there is none before
\* the loop.
OtherWant(t) ==
    /\ otherAt[t] = "idle"
    /\ t = "sender" => mainAt \in {"loop", "got", "command", "nodes"}
    /\ otherAt' = [otherAt EXCEPT ![t] = "want"]
    /\ UNCHANGED <<otherVars, inputVars, print_lock, mainAt, pcU, nodesAt,
                   nodesLeft,
                   printOwner>>

\* with print_lock:
OtherAcquire(t) ==
    /\ otherAt[t] = "want"
    /\ ~print_lock
    /\ print_lock' = TRUE
    /\ printOwner' = t
    /\ otherAt' = [otherAt EXCEPT ![t] = "printing"]
    /\ UNCHANGED <<otherVars, inputVars, mainAt, pcU, nodesAt, nodesLeft>>

OtherRelease(t) ==
    /\ otherAt[t] = "printing"
    /\ print_lock' = FALSE
    /\ printOwner' = "none"
    /\ otherAt' = [otherAt EXCEPT ![t] = "idle"]
    /\ UNCHANGED <<otherVars, inputVars, mainAt, pcU, nodesAt, nodesLeft>>

NextPrint ==
    \/ StartupCall
    \/ CommandTable \/ CommandTableDone
    \/ \E line \in InputLines : UserInput(line)
    \/ LoopGet \/ LoopTake \/ LoopNodes \/ LoopOther
    \/ PeriodicWake \/ PeriodicFire
    \/ \E t \in NodePrinters : NodesAcquire(t)
    \/ \E t \in NodePrinters, n \in 0..MaxNodes : NodesHeader(t, n)
    \/ \E t \in NodePrinters : PrintSingleNode(t)
    \/ \E t \in NodePrinters : NodesReturn(t)
    \/ \E t \in OtherPrinters :
          OtherWant(t) \/ OtherAcquire(t) \/ OtherRelease(t)

\* main has connected, started the periodic thread and subscribed on_receive.
InitPrint ==
    /\ Start0 /\ variant = "cli" /\ oneAtATime = TRUE
    /\ Corr0 /\ GuiConnected /\ Dm0
    /\ nodes = NoNames
    /\ PrintIdle
    /\ mainAt = "startup"

SpecPrint == InitPrint /\ [][NextPrint]_vars

----------------------------------------------------------------------------
(* Properties.                                                              *)

\* The step in which call c reads the result and the step in which it prints.
ReportStep(c) == pc[c] \in {"report", "report_cs"} /\ pc'[c] = "reported"

\* The callback's test of the packet against the expected source.
CheckStep == pcF = "obs_check" /\ pcF' # "obs_check"

\* The callback returns.
ReturnStep == pcF # "idle" /\ pcF' = "idle"

\* What disarm has to return when the last acknowledgment seen carried r.
ResultFor(r) ==
    IF r = "none" THEN "UNKNOWN"
    ELSE IF r = Absent THEN "UNKNOWN_RESPONSE"
    ELSE r

\* C1: send-and-wait calls never interleave: at most one thread is between
\* the start of its arm and the end of its disarm.
C1_Serialized == Cardinality({c \in Calls : InCycle(c)}) <= 1

\* C2: when sendText raised and the operation has ended (no other send in
\* progress), the expected source is None again.
C2_ClearedAfterRaise ==
    \A c \in Calls :
        ( /\ pc[c] = "reported"
          /\ outcome[c] = "error"
          /\ \A o \in Calls \ {c} : Ended(o) )
        => waiting_for_ack_from = None

\* C3: after an arm one packet at most is treated as the acknowledgment: a
\* packet is consumed only while none has been consumed since the last arm
\* (the flag, raised by every consumption and lowered only by arm, is clear).
C3_ConsumedOnce ==
    [][ (CheckStep /\ pcF' = "obs_status") => ~ack_received_event ]_vars

\* C4: the status read at disarm is the reason carried by the packet that
\* released the wait.
C4_ExactReason ==
    \A c \in Calls :
        ( /\ pc[c] = "disarm_clear"
          /\ released[c] = "signal"
          /\ releaser \in Reasons )
        => status[c] = releaser

\* C5 as stated: when the wait timed out and no routing packet from the
\* call's destination was tested between arm and that expiry, the status
\* read is UNKNOWN.
C5_Original ==
    \A c \in Calls :
        ( /\ pc[c] = "disarm_clear"
          /\ released[c] = "timeout"
          /\ ~sawMatch[c] )
        => status[c] = "UNKNOWN"

\* C5 as amended: when no packet was consumed between the call's arm and its
\* disarm (the read under the lock), the status read is UNKNOWN.
C5_Amended ==
    \A c \in Calls :
        (pc[c] = "disarm_clear" /\ ~anyConsumed[c]) => status[c] = "UNKNOWN"

C5_Witness ==
    \E c \in Calls :
        /\ pc[c] = "disarm_clear"
        /\ released[c] = "timeout"
        /\ ~anyConsumed[c]
        /\ status[c] = "UNKNOWN"

C7_NonMatchingPassThrough ==
    [][ ( /\ CheckStep
          /\ waiting_for_ack_from \in Nodes
          /\ ~RoutingFrom(packet, waiting_for_ack_from) )
        => (pcF' = "display" /\ corr' = corr) ]_vars

C7_WitnessOtherSource ==
    /\ pcF = "display"
    /\ obsExpected \in Nodes
    /\ waiting_for_ack_from = obsExpected
    /\ \E x \in Nodes \ {obsExpected} : RoutingFrom(packet, x)

\* C8 as stated: every packet handed to the callback is either consumed or
\* shown (printed, or put on packet_queue), never both and never neither, and
\* a routing packet from the expected source is consumed.
C8_Original ==
    [][ /\ ReturnStep => pcF \in {"obs_set", "display", "display_cs"}
        /\ ( /\ CheckStep
             /\ waiting_for_ack_from \in Nodes
             /\ RoutingFrom(packet, waiting_for_ack_from) )
           => pcF' = "obs_status" ]_vars

\* C8 as amended: every packet that has a decoded payload is either consumed
\* or shown, never both and never neither; it is consumed exactly when it is a
\* routing packet from the expected source; a packet without a decoded
\* payload is never consumed.
C8_Amended ==
    [][ /\ (ReturnStep /\ packet.decoded)
           => pcF \in {"obs_set", "display", "display_cs"}
        /\ ReturnStep
           => ( pcF = "obs_set"
                <=> (obsExpected \in Nodes /\ RoutingFrom(packet, obsExpected)) )
        /\ ( /\ CheckStep
             /\ waiting_for_ack_from \in Nodes
             /\ RoutingFrom(packet, waiting_for_ack_from) )
           => pcF' = "obs_status" ]_vars

C8_Witness ==
    /\ pcF = "obs_set"
    /\ obsExpected \in Nodes
    /\ RoutingFrom(packet, obsExpected)

\* C9: with one send at a time, the final message is 'delivered' exactly when
\* the status read is NONE, 'timeout' exactly when the flag was never raised
\* between arm and disarm (the status read is UNKNOWN), and 'failed' for every
\* other value, which is then printed as it was read; one of the three is
\* printed.
C9_Classification ==
    [][ \A c \in Calls :
          /\ pc[c] = "disarm_clear"
             => /\ (status[c] = "UNKNOWN") <=> ~ack_received_event
                /\ (status[c] = "UNKNOWN") <=> ~anyConsumed[c]
          /\ ReportStep(c)
             => /\ outcome'[c] \in {"delivered", "timeout", "failed"}
                /\ (outcome'[c] = "delivered") <=> (status[c] = "NONE")
                /\ (outcome'[c] = "timeout") <=> (status[c] = "UNKNOWN")
                /\ (outcome'[c] = "failed") => (shown'[c] = status[c])
      ]_vars

C9_WitnessFailed ==
    \E c \in Calls :
        /\ pc[c] = "reported"
        /\ outcome[c] = "failed"
        /\ shown[c] = "NO_RESPONSE"

\* C10: with one send at a time, also after an earlier send that ended
\* normally, by timeout or with sendText raising: until a routing packet from
\* its destination is tested the call finds the state that arm leaves from
\* the initial state, and the status it reads at disarm is decided by the
\* last such packet tested between its own arm and its own disarm.
C10_AsIfNoPriorArm ==
    \A c \in Calls :
        /\ (InWindow(c) /\ lastSeen = "none")
           => /\ waiting_for_ack_from = destination[c]
              /\ ack_response_status = "UNKNOWN"
              /\ ~ack_received_event
        /\ pc[c] = "disarm_clear" => status[c] = ResultFor(lastSeen)

C10_WitnessSecondCall ==
    \E c \in Calls :
        /\ \E o \in Calls : o # c /\ pc[o] = "done"
        /\ pc[c] = "disarm_clear"
        /\ lastSeen = "none"
        /\ status[c] = "UNKNOWN"

\* A packet that lacks one of the fields the callback reads.
MissingField(p) ==
    \/ ~p.decoded
    \/ p.fromId = Absent
    \/ p.portnum = Absent
    \/ p.portnum = "ROUTING_APP" /\ p.errorReason = Absent

\* C11: a packet that lacks an expected field (decoded payload, source id,
\* port type, or the error reason of a routing payload) is never consumed:
\* the test leaves expected source, result and flag alone and sends the packet
\* on to the display path.
C11_MalformedSkipped ==
    [][ (CheckStep /\ MissingField(packet))
        => (pcF' = "display" /\ corr' = corr) ]_vars

\* The critical sections of arm, disarm and observe.
InArm(c) == pc[c] \in {"arm_clear", "arm_status", "arm_target"}

InDisarm(c) == pc[c] \in {"disarm_read", "disarm_clear"}

InObserve == pcF \in {"obs_check", "obs_status", "obs_set"}

\* The threads that are inside a critical section of acks_lock.
Holders ==
    {<<"call", c>> : c \in {k \in Calls : InArm(k) \/ InDisarm(k)}}
    \cup (IF InObserve THEN {<<"feed", 0>>} ELSE {})

\* Exactly the holder of the lock is inside a critical section.
LockDiscipline ==
    /\ Cardinality(Holders) <= 1
    /\ acks_lock <=> Holders # {}

\* C12: arm, observe and disarm read and write waiting_for_ack_from and
\* ack_response_status only inside their critical section of acks_lock, and
\* at most one thread is inside such a section: every write to the two fields
\* is made by the one thread that holds the lock, and the callback's test
\* never runs while a call is part-way through its arm or its disarm.
C12_LockedAccess ==
    [][ /\ LockDiscipline /\ LockDiscipline'
        /\ ( \/ waiting_for_ack_from' # waiting_for_ack_from
             \/ ack_response_status' # ack_response_status )
           => (acks_lock /\ Cardinality(Holders) = 1)
        /\ CheckStep => \A c \in Calls : ~InArm(c) /\ ~InDisarm(c)
        /\ \A c \in Calls :
             (pc[c] = "disarm_read" /\ pc'[c] = "disarm_clear") => ~InObserve
      ]_vars

\* The callback is inside its critical section while a call waits to arm.
C12_WitnessContention ==
    /\ pcF = "obs_status"
    /\ acks_lock
    /\ \E c \in Calls : pc[c] = "arm_acquire"

\* C13: a routing packet from X tested while no send-and-wait to X is between
\* its arm and its disarm (also one tested just before such a call takes the
\* lock to arm) is ordinary traffic: it goes to the display path and changes
\* neither expected source, result nor flag, so it cannot release the wait of
\* the call that arms afterwards; a routing packet from X tested after the
\* call's arm and before its disarm is consumed for that call.
C13_ArmOrdering ==
    [][ /\ ( /\ CheckStep
             /\ \E x \in Nodes :
                  /\ RoutingFrom(packet, x)
                  /\ \A c \in Calls : ~(InCycle(c) /\ destination[c] = x) )
           => (pcF' = "display" /\ corr' = corr)
        /\ ( /\ CheckStep
             /\ \E c \in Calls :
                  InWindow(c) /\ RoutingFrom(packet, destination[c]) )
           => pcF' = "obs_status"
      ]_vars

\* C17: for one send-and-wait the message reported is decided by the value
\* read under the lock at disarm alone: when the wait returned by timeout and
\* a routing packet from the destination was consumed before disarm took the
\* lock, the value read is what that packet carried, so the call reports that
\* result and not a timeout; one message is reported, never two.
C17_OnePathTakesEffect ==
    [][ \A c \in Calls :
          /\ ( /\ pc[c] = "disarm_clear"
               /\ released[c] = "timeout"
               /\ anyConsumed[c] )
             => /\ status[c] = ResultFor(lastSeen)
                /\ Classify(status[c]) # "timeout"
          /\ ReportStep(c)
             => /\ outcome[c] = "none"
                /\ outcome'[c] = Classify(status[c])
          /\ (outcome[c] # "none" /\ pc'[c] # "done")
             => outcome'[c] = outcome[c]
      ]_vars

\* The wait timed out, no matching packet had been tested until then, and one
\* carrying NONE was consumed before disarm read the result.
C17_WitnessLateAck ==
    \E c \in Calls :
        /\ pc[c] = "disarm_clear"
        /\ released[c] = "timeout"
        /\ ~sawMatch[c]
        /\ anyConsumed[c]
        /\ status[c] = "NONE"

\* The order of the four steps of send-and-wait.
Order == <<"arm", "send", "wait", "disarm">>

IsPrefix(s, t) ==
    /\ Len(s) <= Len(t)
    /\ \A i \in 1..Len(s) : s[i] = t[i]

\* The step in which call c calls interface.sendText.
SendStep(c) == pc[c] = "send" /\ pc'[c] # "send"

\* C14: every send-and-wait does arm, sendText, wait, disarm in this order:
\* sendText is called only after the arm, which has set the expected source
\* to the destination under the lock; once the wait has returned the thread's
\* next steps are the read of the result and the clearing of the expected
\* source under the lock; so a routing packet from the destination that is
\* tested after sendText was called is never tested before the call's arm.
C14_StepOrder ==
    [][ \A c \in Calls :
          /\ IsPrefix(steps[c], Order) /\ IsPrefix(steps'[c], Order)
          /\ (pc[c] = "arm_target" /\ pc'[c] # "arm_target")
             => /\ acks_lock
                /\ steps[c] = <<>>
                /\ waiting_for_ack_from' = destination[c]
          /\ SendStep(c) => steps[c] = <<"arm">>
          /\ pc[c] = "disarm_acquire"
             => /\ steps[c] = <<"arm", "send", "wait">>
                /\ pc'[c] \in {"disarm_acquire", "disarm_read"}
          /\ (pc[c] = "disarm_read" /\ pc'[c] # "disarm_read")
             => /\ pc'[c] = "disarm_clear"
                /\ status'[c] = ack_response_status
          /\ (pc[c] = "disarm_clear" /\ pc'[c] # "disarm_clear")
             => /\ waiting_for_ack_from' = None
                /\ steps'[c] = Order
          /\ ( /\ CheckStep
               /\ Len(steps[c]) >= 2
               /\ RoutingFrom(packet, destination[c]) )
             => steps[c][1] = "arm" /\ steps[c][2] = "send"
      ]_vars

\* A routing packet from the destination is consumed while the call, which
\* has armed and sent, is waiting.
C14_WitnessAckWhileWaiting ==
    /\ pcF = "obs_status"
    /\ \E c \in Calls :
          /\ pc[c] = "wait"
          /\ steps[c] = <<"arm", "send">>
          /\ RoutingFrom(packet, destination[c])

\* How many times the thread has called interface.sendText.
NSends(s) == Cardinality({i \in 1..Len(s) : s[i] = "send"})

\* C15: a send-and-wait calls interface.sendText once: never a second time,
\* and from the return (or the raise) of that call on, also after the
\* timeout or the failure has been reported, its count is one.
C15_SingleSend ==
    \A c \in Calls :
        /\ NSends(steps[c]) <= 1
        /\ pc[c] \in {"wait", "disarm_acquire", "disarm_read", "disarm_clear",
                      "report", "report_cs", "except", "except_cs",
                      "reported"}
           => NSends(steps[c]) = 1
        /\ pc[c] \in {"arm_acquire", "arm_clear", "arm_status", "arm_target",
                      "announce", "announce_cs", "send"}
           => NSends(steps[c]) = 0

C15_WitnessAfterTimeout ==
    \E c \in Calls :
        /\ pc[c] = "reported"
        /\ outcome[c] = "timeout"
        /\ NSends(steps[c]) = 1

\* C16: a send-and-wait whose sendText has returned reaches the end of its
\* disarm: the wait returns, by the flag or by the timeout, and the thread
\* goes on to read the result and to clear the expected source; it does so
\* too when no acknowledgment ever arrives.
C16_ReachesDisarm ==
    \A c \in Calls : (pc[c] = "wait") ~> (pc[c] = "report")

\* The wait has returned by timeout with the flag still clear, and the
\* thread is inside its disarm.
C16_WitnessTimedOut ==
    \E c \in Calls :
        /\ pc[c] = "disarm_read"
        /\ released[c] = "timeout"
        /\ ~ack_received_event
        /\ steps[c] = <<"arm", "send", "wait">>

\* C18: every invocation of the receive callback returns (unless the
\* process ends first), whatever the sender threads and the main thread do
\* with acks_lock and print_lock.
C18_CallbackReturns ==
    (pcF # "idle") ~> (pcF \in {"idle", "killed"})

\* The step in which the main thread calls interface.sendText for a broadcast.
BroadcastStep == pcM = "bcast" /\ bcastLog' # bcastLog

\* C19: a broadcast calls interface.sendText once, without destination and
\* without asking for an acknowledgment, and leaves expected source, result,
\* flag and acks_lock as they are, also while a direct message is waiting.
C19_BroadcastFrame ==
    [][ /\ BroadcastStep
           => /\ bcastLog = <<>>
              /\ bcastLog' = <<BroadcastCall>>
              /\ ~bcastLog'[1].wantAck
              /\ corr' = corr
              /\ acks_lock' = acks_lock
              /\ pc' = pc
        /\ (pcM = "bcast" /\ pcM' = "prompt") => Len(bcastLog') = 1
        /\ bcastLog' # bcastLog => (BroadcastStep \/ bcastLog' = <<>>)
      ]_vars

\* A broadcast has been sent while a direct message waits for its
\* acknowledgment.
C19_WitnessWhileWaiting ==
    /\ pcM = "prompt"
    /\ bcastLog = <<BroadcastCall>>
    /\ \E c \in Calls :
          /\ pc[c] = "wait"
          /\ waiting_for_ack_from = destination[c]
          /\ ack_response_status = "UNKNOWN"

\* C20: a shutdown interrupts a send-and-wait that is blocked in its wait:
\* the process does not end while a thread is still blocked there, and once
\* the interface has been closed a wait does not run on to its timeout.
C20_ShutdownInterrupts ==
    [][ \A c \in Calls :
          /\ (closed /\ pc[c] = "wait" /\ pc'[c] # "wait")
             => released'[c] # "timeout"
          /\ pcM' = "exited" => pc[c] # "wait"
      ]_vars

\* The last step of call c's arm and the last step of its disarm.
ArmEnds(c) == pc[c] = "arm_target" /\ pc'[c] = "announce"

DisarmEnds(c) == pc[c] = "disarm_clear" /\ pc'[c] = "report"

\* C22: when a call arms while another one is between its arm and its
\* disarm, the one slot is overwritten (expected source: the new destination,
\* result UNKNOWN, flag clear); the disarm of either call clears the slot
\* while the other is still waiting; a routing packet from the waiting call's
\* destination that is tested then is not consumed; and the call, for which
\* nothing was consumed, reads UNKNOWN and reports a timeout.
C22_SlotOverwritten ==
    [][ \A c \in Calls : \A o \in Calls \ {c} :
          /\ (ArmEnds(c) /\ InWindow(o))
             => /\ waiting_for_ack_from' = destination[c]
                /\ ack_response_status' = "UNKNOWN"
                /\ ~ack_received_event'
          /\ (DisarmEnds(o) /\ InWindow(c)) => waiting_for_ack_from' = None
          /\ ( /\ CheckStep
               /\ waiting_for_ack_from = None
               /\ InWindow(c)
               /\ RoutingFrom(packet, destination[c]) )
             => (pcF' = "display" /\ corr' = corr)
          /\ (pc[c] = "disarm_clear" /\ ~anyConsumed[c])
             => status[c] = "UNKNOWN"
          /\ (ReportStep(c) /\ status[c] = "UNKNOWN")
             => outcome'[c] = "timeout"
      ]_vars

\* The call started first has disarmed; the acknowledgment for the second,
\* which is still waiting, has been tested against an empty slot and goes to
\* the display path.
C22_WitnessAckDropped ==
    /\ pcF = "display"
    /\ obsExpected = None
    /\ waiting_for_ack_from = None
    /\ pc[1] \in {"report", "report_cs", "reported", "done"}
    /\ pc[2] = "wait"
    /\ RoutingFrom(packet, destination[2])
    /\ ~anyConsumed[2]

\* C24: whenever acks_lock is free, the flag is set only if the result is
\* not UNKNOWN (no packet carries the reason UNKNOWN).
C24_SignalImpliesResult ==
    ~acks_lock => (ack_received_event => ack_response_status # "UNKNOWN")

\* An acknowledgment has been consumed for a waiting call and the lock is
\* free again.
C24_WitnessSignalled ==
    /\ ~acks_lock
    /\ ack_received_event
    /\ ack_response_status = "NONE"
    /\ \E c \in Calls : pc[c] = "wait"

\* The callback's test takes the branch that consumes the packet.
ConsumeStep == CheckStep /\ pcF' = "obs_status"

\* C23 as stated: a packet consumed during a send-and-wait is the response
\* to that call's own send, so it is consumed only after the call has called
\* sendText: a routing packet from X that answers an earlier send (or none)
\* and arrives after the later call's arm is not consumed for the later call.
C23_Original ==
    [][ \A c \in Calls :
          (ConsumeStep /\ InWindow(c)) => NSends(steps[c]) = 1 ]_vars

\* C23 as amended: with one send at a time, a packet consumed during a
\* send-and-wait to X is a routing packet from X tested between the call's
\* arm and its disarm, whichever send it answers.
C23_Amended ==
    [][ \A c \in Calls :
          /\ (ConsumeStep /\ InWindow(c))
             => /\ waiting_for_ack_from = destination[c]
                /\ RoutingFrom(packet, destination[c])
          /\ ( /\ CheckStep
               /\ InWindow(c)
               /\ RoutingFrom(packet, destination[c]) )
             => ConsumeStep
      ]_vars

\* After an earlier send-and-wait has ended, a routing packet from the
\* destination of the call in progress is consumed before that call has
\* called sendText.
C23_WitnessBeforeSend ==
    /\ pcF = "obs_status"
    /\ pc[1] = "done"
    /\ pc[2] \in {"announce", "announce_cs", "send"}
    /\ steps[2] = <<"arm">>
    /\ RoutingFrom(packet, destination[2])

\* C25: in meshtastic_cli.py every command the main loop has taken is
\* handled to completion: the loop gets back to waiting for the next command
\* (or goes on to the shutdown), and does not block for ever on print_lock.
C25_CommandsComplete ==
    (pcM \in {"nodes", "bcast", "prompt"})
        ~> (pcM \in {"idle", "closing", "exited"})

\* The threads that are inside a 'with print_lock' block.
PrintHolders ==
    {<<"call", c>> : c \in {k \in Calls :
                              pc[k] \in {"announce_cs", "report_cs", "except_cs"}}}
    \cup (IF pcF = "display_cs" THEN {<<"feed", 0>>} ELSE {})
    \cup (IF UsesPrintLock(variant) /\ pcM \in {"nodes", "bcast", "prompt"}
          THEN {<<"main", 0>>} ELSE {})

Threads == {<<"call", c>> : c \in Calls} \cup {<<"feed", 0>>, <<"main", 0>>}

\* C26: no thread takes one of acks_lock and print_lock while it holds the
\* other: no thread is inside both kinds of block, a thread that enters a
\* 'with print_lock' block is in no 'with acks_lock' block (acks_lock, if
\* locked, is held by another thread), and the other way round.
C26_NoNestedLocks ==
    [][ /\ Holders \cap PrintHolders = {}
        /\ \A t \in Threads :
             /\ (t \in PrintHolders' /\ t \notin PrintHolders)
                => /\ t \notin Holders
                   /\ acks_lock => Holders # {}
             /\ (t \in Holders' /\ t \notin Holders)
                => /\ t \notin PrintHolders
                   /\ print_lock => PrintHolders # {}
      ]_vars

\* The callback prints under print_lock while a sender is inside its arm
\* under acks_lock.
C26_WitnessBothHeld ==
    /\ variant = "cli"
    /\ pcF = "display_cs"
    /\ print_lock
    /\ acks_lock
    /\ \E c \in Calls : InArm(c)

\* C21: a disarm made directly after a disarm, with no arm and no observe in
\* between, returns what the first returned and leaves the three fields as
\* the first left them, the expected source None.
C21_DisarmIdempotent ==
    [][ (lastOp.op = "disarm" /\ lastOp'.op = "disarm")
        => /\ lastOp'.result = lastOp.result
           /\ copies' = copies
           /\ \A v \in Variants : copies'[v].waiting_for_ack_from = None
      ]_vars

\* A second disarm in a row has returned the NONE that the first returned.
C21_WitnessSecondDisarm ==
    /\ lastOp.op = "disarm"
    /\ lastOp.n = 2
    /\ \A v \in Variants : lastOp.result[v] = "NONE"

C28_ConnectedHasInterface ==
    /\ is_connected => interface # None
    /\ sendLog # "AttributeError"

\* Node n has a long name or a short name equal to t, ignoring case.
HasName(info, t) ==
    \E key \in {"longName", "shortName"} :
        info[key] # Absent /\ Lower(info[key]) = Lower(t)

\* The destination a dm command names: the target itself when it starts
\* with '!', the one node that has the target as a name; None when the
\* command has fewer than three parts or no node or several nodes have it.
NamedNode(parts, db) ==
    IF Len(parts) < 3 THEN None
    ELSE IF StartsWithBang(parts[2]) THEN parts[2]
    ELSE IF Cardinality({n \in DOMAIN db : HasName(db[n], parts[2])}) = 1
    THEN CHOOSE n \in DOMAIN db : HasName(db[n], parts[2])
    ELSE None

\* C29: a dm command starts a send-and-wait exactly when it names one
\* destination, and then for that destination; for every other dm command
\* nothing is sent, no thread is started and the correlator is left alone.
C29_ResolvedOrNothing ==
    [][ (dmCmd' # dmCmd \/ dmLog' # dmLog)
        => /\ (dmLog' = "started") <=> (NamedNode(dmCmd', nodes) # None)
           /\ dmLog' = "started"
              => \E c \in Calls :
                    /\ pc[c] = "idle" /\ pc'[c] = "arm_acquire"
                    /\ destination'[c] = NamedNode(dmCmd', nodes)
           /\ dmLog' # "started"
              => /\ dmLog' = "refused"
                 /\ pc' = pc
                 /\ corr' = corr
      ]_vars

\* C30: in meshtastic_cli.py a thread executes print_single_node only while
\* it holds print_lock itself, whoever called the node printer.
C30_SingleNodeUnderLock ==
    \A t \in NodePrinters :
        nodesAt[t] = "single" => (print_lock /\ printOwner = t)

\* main prints a node at start-up, holding print_lock, while the periodic
\* thread, its interval over, waits for the lock.
C30_WitnessStartup ==
    /\ mainAt = "startup_nodes"
    /\ nodesAt["main"] = "single"
    /\ printOwner = "main"
    /\ print_lock
    /\ pcU = "want"

====
